---- MODULE Spec2Model ----
(***************************************************************************)
(* The layout state store of the full-width table plugin (class TableMap  *)
(* of src/src/main.ts): the view width, the wrapper width of every table, *)
(* the derived left gap of every table and the change listeners.          *)
(*                                                                         *)
(* Numbers.  Widths are whole pixels (clientWidth is an integer).  The    *)
(* code halves a difference of widths, so a left gap is a multiple of     *)
(* half a pixel: the model stores a left gap in HALF PIXELS, that is the  *)
(* numerator of the code's value over the fixed denominator 2.  Halving   *)
(* is exact in the code's doubles for these values, so nothing is lost.   *)
(*                                                                         *)
(* Records.  A JavaScript Record<TableId, number> is a function whose     *)
(* DOMAIN is the set of keys present; Object.keys of leftGap is kept as   *)
(* the sequence leftGapKeys (insertion order).                            *)
(*                                                                         *)
(* Exceptions.  A call is computed on a record (the "frame") that carries *)
(* the fields of the store, the log of the call and the error thrown so   *)
(* far; a statement after a throw is not executed.  The log holds the     *)
(* events emitted (a loop over the listeners of a kind was entered), the  *)
(* listener invocations and the tables whose calcLeftGap was entered.     *)
(*                                                                         *)
(* Listeners.  A callback is named by its place in the order in which the *)
(* callbacks of its event were registered.  Whether an invocation throws  *)
(* is the environment's choice, made per call (raiseAt).  The listeners   *)
(* of the plugin (lines 45-66) do not call back into the store, and no    *)
(* listener of the model does.                                            *)
(*                                                                         *)
(* A call is one step.  A property of a call is stated of every call that *)
(* can be made in a reachable state: of the state before it (the          *)
(* variables) and of the frame it returns.                                *)
(*                                                                         *)
(* The plugin.  FullwidthTablePlugin (lines 6-167) is the store's caller: *)
(* its handlers are the actions of SpecPlugin, and its state (how far the *)
(* onLayoutReady callback got, the ids on the table widgets, the widgets  *)
(* observed, the uuids generated) stays as constructed in the             *)
(* specifications of the store alone.  A table id is a string there and   *)
(* the number of the uuid in SpecPlugin.                                  *)
(***************************************************************************)
EXTENDS Integers, Sequences, FiniteSets

\* ---------------------------------------------------------------- bounds
\* widths reported by the environment are 0..MaxWidth pixels
MaxWidth == 1
\* the line width is LineWidth pixels when it is available
LineWidth == 1
\* where one table is followed through the rule, all widths are 0..MaxRuleWidth
MaxRuleWidth == 4
\* at most MaxListeners listeners are registered, over the three events
MaxListeners == 2
\* the plugin generates at most MaxUuids uuids
MaxUuids == 3

\* the uuids given to the tables
TableIds == {"t1", "t2"}
Widths == 0..MaxWidth
\* the table and the widths of the specification of the rule
RuleTableIds == {"t1"}
RuleWidths == 0..MaxRuleWidth
\* the value of an unset number (viewWidth, a missing .cm-contentContainer)
Undefined == -1
Events == {"tableWrapperWidth", "leftGap", "viewWidth"}
\* the div.cm-table-widget elements there can be
Elements == {"e1", "e2"}
\* the value of dataset.pluginFullwidthTableId on an element that has none
NoId == 0
NoError == "none"

VARIABLES
    viewWidth,            \* TableMap.viewWidth: a width or Undefined
    tableWrapperWidth,    \* TableMap.tableWrapperWidth: TableId -> width
    leftGap,              \* TableMap.leftGap: TableId -> left gap, in half pixels
    leftGapKeys,          \* Object.keys(TableMap.leftGap), in insertion order
    changeEventListeners, \* TableMap.changeEventListeners: event -> callbacks
    lineWidth,            \* clientWidth of .cm-contentContainer, or Undefined
    loaded,               \* how far the plugin's onLayoutReady callback got
    pluginFullwidthTableId, \* dataset.pluginFullwidthTableId of each table widget
    observed,             \* the table widgets the plugin's table observers watch
    uuids                 \* the number of uuids generated so far

\* the state of the plugin around the store
plugin == <<loaded, pluginFullwidthTableId, observed, uuids>>

vars == <<viewWidth, tableWrapperWidth, leftGap, leftGapKeys, changeEventListeners,
          lineWidth, loaded, pluginFullwidthTableId, observed, uuids>>

\* ---------------------------------------------------------------- helpers
\* obj[key] = value on a Record
Put(obj, key, value) ==
    [k \in (DOMAIN obj) \cup {key} |-> IF k = key THEN value ELSE obj[k]]

\* the elements of a sequence
Range(seq) == {seq[i] : i \in DOMAIN seq}

\* the store at the start of a call, with an empty log
Frame ==
    [viewWidth |-> viewWidth, tableWrapperWidth |-> tableWrapperWidth,
     leftGap |-> leftGap, leftGapKeys |-> leftGapKeys,
     emitted |-> <<>>, invoked |-> <<>>, recomputed |-> <<>>, error |-> NoError]

\* throw new Error(message)
Throw(s, message) == [s EXCEPT !.error = message]

\* ---------------------------------------------------------------- TableMap
\* the listeners invoked last registered first
NotifyInReverse(s, event, args, raiseAt) ==
    LET callbacks == changeEventListeners[event]
        base == Len(s.invoked)
        raised == raiseAt \in (base + 1)..(base + Len(callbacks))
        n == IF raised THEN raiseAt - base ELSE Len(callbacks)
    IN  [s EXCEPT !.emitted = Append(@, [event |-> event, args |-> args]),
                  !.invoked = @ \o [i \in 1..n |->
                        [event |-> event, listener |-> callbacks[Len(callbacks) + 1 - i],
                         args |-> args]],
                  !.error = IF raised THEN "listener" ELSE @]

\* each callback invoked in a try block that drops what it throws
NotifyCatching(s, event, args, raiseAt) ==
    LET callbacks == changeEventListeners[event]
    IN  [s EXCEPT !.emitted = Append(@, [event |-> event, args |-> args]),
                  !.invoked = @ \o [i \in 1..Len(callbacks) |->
                        [event |-> event, listener |-> callbacks[i], args |-> args]]]

\* for (const callback of this.changeEventListeners[event]) callback(...args)
\* raiseAt is the invocation of this call (counted from its first) that throws.
Notify(s, event, args, raiseAt) ==
    LET callbacks == changeEventListeners[event]
        base == Len(s.invoked)
        raised == raiseAt \in (base + 1)..(base + Len(callbacks))
        n == IF raised THEN raiseAt - base ELSE Len(callbacks)
    IN  [s EXCEPT !.emitted = Append(@, [event |-> event, args |-> args]),
                  !.invoked = @ \o [i \in 1..n |->
                        [event |-> event, listener |-> callbacks[i], args |-> args]],
                  !.error = IF raised THEN "listener" ELSE @]

\* calcLeftGap as its comment words the second case: half the difference of the
\* wrapper's width and the VIEW's width
NewLeftGapOfViewDifference(wrapperWidth, line, view) ==
    IF wrapperWidth < line THEN 0
    ELSE IF line < wrapperWidth /\ wrapperWidth < view THEN view - wrapperWidth
    ELSE view - line

\* the rule without its last case: half the excess over the line, however wide
NewLeftGapUnclamped(wrapperWidth, line, view) ==
    IF wrapperWidth < line THEN 0
    ELSE wrapperWidth - line

\* the three-way rule of calcLeftGap, in half pixels
NewLeftGap(wrapperWidth, line, view) ==
    IF wrapperWidth < line THEN 0
    ELSE IF line < wrapperWidth /\ wrapperWidth < view THEN wrapperWidth - line
    ELSE view - line

\* calcLeftGap publishing the left gap only when it differs from the stored one
CalcLeftGapPublishingChanges(s, tableId, raiseAt) ==
    LET entered == [s EXCEPT !.recomputed = Append(@, tableId)]
    IN  IF tableId \notin DOMAIN s.tableWrapperWidth
            THEN Throw(entered, "tableWrapperWidth not found in tableMap")
        ELSE IF s.viewWidth = Undefined
            THEN Throw(entered, "viewWidth is not initialized")
        ELSE IF lineWidth = Undefined
            THEN Throw(entered, "lineWidth is not initialized")
        ELSE LET newLeftGap == NewLeftGap(s.tableWrapperWidth[tableId], lineWidth, s.viewWidth)
                 stored == [entered EXCEPT
                     !.leftGap = Put(@, tableId, newLeftGap),
                     !.leftGapKeys = IF tableId \in DOMAIN s.leftGap THEN @ ELSE Append(@, tableId)]
             IN  IF tableId \in DOMAIN s.leftGap /\ s.leftGap[tableId] = newLeftGap
                 THEN stored
                 ELSE Notify(stored, "leftGap", <<tableId, newLeftGap>>, raiseAt)

\* calcLeftGap taking a missing view width or line width for "no shift"
CalcLeftGapDefaultingToZero(s, tableId, raiseAt) ==
    LET entered == [s EXCEPT !.recomputed = Append(@, tableId)]
    IN  IF tableId \notin DOMAIN s.tableWrapperWidth
            THEN Throw(entered, "tableWrapperWidth not found in tableMap")
        ELSE LET newLeftGap ==
                     IF s.viewWidth = Undefined \/ lineWidth = Undefined THEN 0
                     ELSE NewLeftGap(s.tableWrapperWidth[tableId], lineWidth, s.viewWidth)
                 stored == [entered EXCEPT
                     !.leftGap = Put(@, tableId, newLeftGap),
                     !.leftGapKeys = IF tableId \in DOMAIN s.leftGap THEN @ ELSE Append(@, tableId)]
             IN  Notify(stored, "leftGap", <<tableId, newLeftGap>>, raiseAt)

\* private calcLeftGap(tableId); line is what document.querySelector(
\* '.cm-contentContainer')?.clientWidth gives when this call reads it
CalcLeftGapReading(s, tableId, raiseAt, line) ==
    LET entered == [s EXCEPT !.recomputed = Append(@, tableId)]
    IN  IF tableId \notin DOMAIN s.tableWrapperWidth
            THEN Throw(entered, "tableWrapperWidth not found in tableMap")
        ELSE IF s.viewWidth = Undefined
            THEN Throw(entered, "viewWidth is not initialized")
        ELSE IF line = Undefined
            THEN Throw(entered, "lineWidth is not initialized")
        ELSE LET newLeftGap == NewLeftGap(s.tableWrapperWidth[tableId], line, s.viewWidth)
                 stored == [entered EXCEPT
                     !.leftGap = Put(@, tableId, newLeftGap),
                     !.leftGapKeys = IF tableId \in DOMAIN s.leftGap THEN @ ELSE Append(@, tableId)]
             IN  Notify(stored, "leftGap", <<tableId, newLeftGap>>, raiseAt)

\* private calcLeftGap(tableId), the layout being as the state has it
CalcLeftGap(s, tableId, raiseAt) == CalcLeftGapReading(s, tableId, raiseAt, lineWidth)

\* no comparison with the stored width: every report counts as a change
IsValueChangedAlways(s, tableId, width) == TRUE

\* const isValueChanged = this.tableWrapperWidth[tableId] !== width
IsValueChanged(s, tableId, width) ==
    \/ tableId \notin DOMAIN s.tableWrapperWidth
    \/ s.tableWrapperWidth[tableId] # width

\* setTableWrapperWidth keeping one wrapper width for all the tables it knows
SetTableWrapperWidthOfEveryTable(s, tableId, width, raiseAt) ==
    IF IsValueChanged(s, tableId, width)
    THEN LET stored == [s EXCEPT !.tableWrapperWidth =
                            [key \in (DOMAIN @) \cup {tableId} |-> width]]
             notified == Notify(stored, "tableWrapperWidth", <<tableId, width>>, raiseAt)
         IN  IF notified.error # NoError THEN notified
             ELSE CalcLeftGap(notified, tableId, raiseAt)
    ELSE s

\* setTableWrapperWidth emitting the event before it stores the width
SetTableWrapperWidthNotifyingFirst(s, tableId, width, raiseAt) ==
    IF IsValueChanged(s, tableId, width)
    THEN LET notified == Notify(s, "tableWrapperWidth", <<tableId, width>>, raiseAt)
         IN  IF notified.error # NoError THEN notified
             ELSE CalcLeftGap([notified EXCEPT !.tableWrapperWidth = Put(@, tableId, width)],
                              tableId, raiseAt)
    ELSE s

\* setTableWrapperWidth(tableId, width)
SetTableWrapperWidth(s, tableId, width, raiseAt) ==
    IF IsValueChanged(s, tableId, width)
    THEN LET stored == [s EXCEPT !.tableWrapperWidth = Put(@, tableId, width)]
             notified == Notify(stored, "tableWrapperWidth", <<tableId, width>>, raiseAt)
         IN  IF notified.error # NoError THEN notified
             ELSE CalcLeftGap(notified, tableId, raiseAt)
    ELSE s

\* for (const tableId of keys) this.calcLeftGap(tableId), from the i-th key on
RECURSIVE CalcEach(_, _, _, _)
CalcEach(s, keys, i, raiseAt) ==
    IF i > Len(keys) \/ s.error # NoError THEN s
    ELSE CalcEach(CalcLeftGap(s, keys[i], raiseAt), keys, i + 1, raiseAt)

\* setViewWidth going through every table of the document, reported or not
KeysToRecomputeEveryTable(s) == <<"t1", "t2">>

\* the keys setViewWidth iterates over
KeysToRecompute(s) == s.leftGapKeys

\* setViewWidth(width)
SetViewWidth(s, width, raiseAt) ==
    LET stored == [s EXCEPT !.viewWidth = width]
        notified == Notify(stored, "viewWidth", <<width>>, raiseAt)
    IN  IF notified.error # NoError THEN notified
        ELSE CalcEach(notified, KeysToRecompute(notified), 1, raiseAt)

\* the loop of setViewWidth with the line width read once, before the loop
RECURSIVE CalcEachReadingOnce(_, _, _, _, _)
CalcEachReadingOnce(s, keys, i, raiseAt, lines) ==
    IF i > Len(keys) \/ s.error # NoError THEN s
    ELSE CalcEachReadingOnce(CalcLeftGapReading(s, keys[i], raiseAt, lines[1]), keys, i + 1,
                             raiseAt, lines)

\* the loop of setViewWidth while the layout changes between the recomputations
\* (a leftGap listener restyles a table): the i-th one reads the line width lines[i]
RECURSIVE CalcEachReading(_, _, _, _, _)
CalcEachReading(s, keys, i, raiseAt, lines) ==
    IF i > Len(keys) \/ s.error # NoError THEN s
    ELSE CalcEachReading(CalcLeftGapReading(s, keys[i], raiseAt, lines[i]), keys, i + 1,
                         raiseAt, lines)

\* setViewWidth(width) while the layout changes between the recomputations
SetViewWidthReading(s, width, raiseAt, lines) ==
    LET stored == [s EXCEPT !.viewWidth = width]
        notified == Notify(stored, "viewWidth", <<width>>, raiseAt)
    IN  IF notified.error # NoError THEN notified
        ELSE CalcEachReading(notified, KeysToRecompute(notified), 1, raiseAt, lines)

\* this.changeEventListeners[event].push(callback): the callback is named by
\* its place in the order of registration for that event
AddChangeEventListener(listeners, event) ==
    [listeners EXCEPT ![event] = Append(@, Len(@) + 1)]

\* ---------------------------------------------------------------- actions
\* the listener invocations one of which may throw: those of the call when none
\* throws (0 is: none throws)
RaiseChoices(unraised) == 0..Len(unraised.invoked)

\* a call returns or throws: the fields of the store are as the call left them
Return(s) ==
    /\ viewWidth' = s.viewWidth
    /\ tableWrapperWidth' = s.tableWrapperWidth
    /\ leftGap' = s.leftGap
    /\ leftGapKeys' = s.leftGapKeys

\* new TableMap()
Constructed ==
    /\ viewWidth = Undefined
    /\ tableWrapperWidth = << >>
    /\ leftGap = << >>
    /\ leftGapKeys = << >>
    /\ changeEventListeners = [e \in Events |-> << >>]

\* the adapter reports the wrapper width of a table
CallSetTableWrapperWidth(ids, widths) ==
    \E tableId \in ids, width \in widths :
        \E raiseAt \in RaiseChoices(SetTableWrapperWidth(Frame, tableId, width, 0)) :
            /\ Return(SetTableWrapperWidth(Frame, tableId, width, raiseAt))
            /\ UNCHANGED <<changeEventListeners, lineWidth, plugin>>

\* the adapter reports the width of the view
CallSetViewWidth(widths) ==
    \E width \in widths :
        \E raiseAt \in RaiseChoices(SetViewWidth(Frame, width, 0)) :
            /\ Return(SetViewWidth(Frame, width, raiseAt))
            /\ UNCHANGED <<changeEventListeners, lineWidth, plugin>>

\* the number of listeners registered, over the three events
Registered ==
    Len(changeEventListeners["tableWrapperWidth"]) + Len(changeEventListeners["leftGap"])
        + Len(changeEventListeners["viewWidth"])

\* a listener is registered
CallAddChangeEventListener ==
    \E event \in Events :
        /\ Registered < MaxListeners
        /\ changeEventListeners' = AddChangeEventListener(changeEventListeners, event)
        /\ UNCHANGED <<viewWidth, tableWrapperWidth, leftGap, leftGapKeys, lineWidth, plugin>>

\* the host lays the document out again: the line width changes
LineWidthChanges(widths) ==
    \E width \in widths \cup {Undefined} :
        /\ width # lineWidth
        /\ lineWidth' = width
        /\ UNCHANGED <<viewWidth, tableWrapperWidth, leftGap, leftGapKeys, changeEventListeners,
                       plugin>>

\* the plugin before the workspace's layout is ready: onLayoutReady's callback has
\* not run, no table widget carries an id, none is observed, no uuid was generated
NotLoaded ==
    /\ loaded = "waiting"
    /\ pluginFullwidthTableId = [element \in Elements |-> NoId]
    /\ observed = {}
    /\ uuids = 0

\* The store and its listeners: two tables, few widths; .cm-contentContainer is
\* there, LineWidth pixels wide, or is missing.
Init == Constructed /\ NotLoaded /\ lineWidth \in {LineWidth, Undefined}

Next ==
    \/ CallSetTableWrapperWidth(TableIds, Widths)
    \/ CallSetViewWidth(Widths)
    \/ CallAddChangeEventListener
    \/ LineWidthChanges({LineWidth})

Spec == Init /\ [][Next]_vars

\* The same with the line width held constant, and available.
InitFixedLine == Constructed /\ NotLoaded /\ lineWidth = LineWidth

NextFixedLine ==
    \/ CallSetTableWrapperWidth(TableIds, Widths)
    \/ CallSetViewWidth(Widths)
    \/ CallAddChangeEventListener

SpecFixedLine == InitFixedLine /\ [][NextFixedLine]_vars

\* The rule: one table and no listener, more widths, any of them the line width.
InitRule == Constructed /\ NotLoaded /\ lineWidth \in RuleWidths \cup {Undefined}

NextRule ==
    \/ CallSetTableWrapperWidth(RuleTableIds, RuleWidths)
    \/ CallSetViewWidth(RuleWidths)
    \/ LineWidthChanges(RuleWidths)

SpecRule == InitRule /\ [][NextRule]_vars

\* ---------------------------------------------------------------- the plugin
\* The plugin (FullwidthTablePlugin) is the store's caller.  Its handlers are
\* computed on a record that carries the frame of the store and the plugin's own
\* state; what a handler throws is the error of the store's frame.  What the
\* document holds when a handler runs is the handler's input.

\* the plugin at the start of a handler
PluginFrame ==
    [store |-> Frame, loaded |-> loaded, pluginFullwidthTableId |-> pluginFullwidthTableId,
     observed |-> observed, uuids |-> uuids]

\* throw new Error(message) in a handler of the plugin
PluginThrow(a, message) == [a EXCEPT !.store = Throw(@, message)]

\* private setTableWrapperWidth(tableWidgetElement); width is the clientWidth of
\* the element's div.table-wrapper, Undefined when it has none.  The listeners the
\* constructor registers (lines 45-66) do not throw.
PluginSetTableWrapperWidth(a, element, width) ==
    IF a.pluginFullwidthTableId[element] = NoId
        THEN PluginThrow(a, "tableId not found in dataset")
    ELSE IF width = Undefined
        THEN PluginThrow(a, "tableWrapperElement not found")
    ELSE [a EXCEPT !.store =
            SetTableWrapperWidth(@, a.pluginFullwidthTableId[element], width, 0)]

\* private initTable(tableWidgetElement): uuidv4() gives an id no earlier call
\* gave, here the number of the call
InitTable(a, element, width) ==
    LET tableId == a.uuids + 1
        identified == [a EXCEPT !.uuids = tableId,
                                !.pluginFullwidthTableId[element] = tableId]
        reported == PluginSetTableWrapperWidth(identified, element, width)
    IN  IF reported.store.error # NoError THEN reported
        ELSE [reported EXCEPT !.observed = @ \cup {element}]

\* elements.forEach((element) => this.initTable(element)), from the i-th on
RECURSIVE InitEach(_, _, _, _)
InitEach(a, elements, i, tableWrapper) ==
    IF i > Len(elements) \/ a.store.error # NoError THEN a
    ELSE InitEach(InitTable(a, elements[i], tableWrapper[elements[i]]), elements, i + 1,
                  tableWrapper)

\* private storeViewSize(viewElement): the content width is the element's
\* clientWidth less the padding of its div.cm-scroller
StoreViewSize(a, view) ==
    IF ~view.scroller THEN PluginThrow(a, "scroller not found")
    ELSE LET contentWidth == view.clientWidth - view.padding
         IN  [a EXCEPT !.store = SetViewWidth(@, contentWidth, 0)]

\* the callback scanning the tables before it measures the view
OnLayoutReadyScanningFirst(a, doc) ==
    IF ~doc.viewContent
        THEN [PluginThrow(a, "viewContentElement not found") EXCEPT !.loaded = "aborted"]
    ELSE IF ~doc.cmContent
        THEN PluginThrow([a EXCEPT !.loaded = "viewObserved"], "cmContentElement not found")
    ELSE LET scanned == InitEach([a EXCEPT !.loaded = "ready"], doc.tableWidgets, 1,
                                 doc.tableWrapper)
         IN  IF scanned.store.error # NoError THEN scanned
             ELSE StoreViewSize(scanned, doc.view)

\* the callback given to onLayoutReady in onload
OnLayoutReady(a, doc) ==
    IF ~doc.viewContent
        THEN [PluginThrow(a, "viewContentElement not found") EXCEPT !.loaded = "aborted"]
    ELSE LET sized == StoreViewSize([a EXCEPT !.loaded = "viewObserved"], doc.view)
         IN  IF sized.store.error # NoError THEN sized
             ELSE IF ~doc.cmContent THEN PluginThrow(sized, "cmContentElement not found")
             ELSE InitEach([sized EXCEPT !.loaded = "ready"], doc.tableWidgets, 1,
                           doc.tableWrapper)

\* the lists of table widgets a query or a mutation can give: no element twice
ElementLists ==
    {<< >>} \cup {<<e>> : e \in Elements}
        \cup {<<e, f>> : <<e, f>> \in {p \in Elements \X Elements : p[1] # p[2]}}

\* what .view-content can be when it is measured: whether it holds a
\* div.cm-scroller, its clientWidth and the scroller's padding
Views ==
    {view \in [scroller : BOOLEAN, clientWidth : Widths, padding : Widths] :
        view.padding <= view.clientWidth}

\* the clientWidth of the div.table-wrapper of a table widget, Undefined if none
TableWrappers == Widths \cup {Undefined}

\* the table widgets a query or a mutation can give, each with its table wrapper
TableWidgets ==
    UNION {[tableWidgets : {list}, tableWrapper : [Range(list) -> TableWrappers]] :
            list \in ElementLists}

\* what the document can hold when the layout is ready: .view-content or none,
\* .cm-content or none, the table widgets
Documents ==
    {[viewContent |-> found[1], view |-> view, cmContent |-> found[2],
      tableWidgets |-> widgets.tableWidgets, tableWrapper |-> widgets.tableWrapper] :
        found \in BOOLEAN \X BOOLEAN, view \in Views, widgets \in TableWidgets}

\* a handler of the plugin returns or throws
PluginReturn(a) ==
    /\ Return(a.store)
    /\ loaded' = a.loaded
    /\ pluginFullwidthTableId' = a.pluginFullwidthTableId
    /\ observed' = a.observed
    /\ uuids' = a.uuids
    /\ UNCHANGED <<changeEventListeners, lineWidth>>

\* new FullwidthTablePlugin(app, manifest): a store with one listener of each kind
PluginConstructed ==
    /\ viewWidth = Undefined
    /\ tableWrapperWidth = << >>
    /\ leftGap = << >>
    /\ leftGapKeys = << >>
    /\ changeEventListeners =
            AddChangeEventListener(
                AddChangeEventListener(
                    AddChangeEventListener([e \in Events |-> << >>], "tableWrapperWidth"),
                    "leftGap"),
                "viewWidth")

\* the line widths the recomputations of a setViewWidth call made now can read
LinesRead(widths) == [1..Len(leftGapKeys) -> widths \cup {Undefined}]

\* the adapter reports the width of the view, and the layout changes between the
\* recomputations of the call: it stays as the last of them found it
CallSetViewWidthReading(widths) ==
    \E width \in widths, lines \in LinesRead(widths) :
        \E raiseAt \in RaiseChoices(SetViewWidthReading(Frame, width, 0, lines)) :
            LET r == SetViewWidthReading(Frame, width, raiseAt, lines)
            IN  /\ Return(r)
                /\ lineWidth' = IF r.recomputed = << >> THEN lineWidth
                                ELSE lines[Len(r.recomputed)]
                /\ UNCHANGED <<changeEventListeners, plugin>>

\* The store of the plugin, with the listeners of the plugin's constructor, as
\* the layout changes: between two calls and within one.
InitLayout == PluginConstructed /\ NotLoaded /\ lineWidth \in Widths \cup {Undefined}

NextLayout ==
    \/ CallSetTableWrapperWidth(TableIds, Widths)
    \/ CallSetViewWidthReading(Widths)
    \/ LineWidthChanges(Widths)

SpecLayout == InitLayout /\ [][NextLayout]_vars

\* the workspace's layout is ready
LayoutReady ==
    /\ loaded = "waiting"
    /\ \E doc \in Documents :
        /\ uuids + Len(doc.tableWidgets) <= MaxUuids
        /\ PluginReturn(OnLayoutReady(PluginFrame, doc))

\* tableInsertionObserver: table widgets were added under .cm-content
TableInserted ==
    /\ loaded = "ready"
    /\ \E added \in TableWidgets :
        /\ added.tableWidgets # << >>
        /\ uuids + Len(added.tableWidgets) <= MaxUuids
        /\ PluginReturn(InitEach(PluginFrame, added.tableWidgets, 1, added.tableWrapper))

\* viewResizeObserver: .view-content was resized
ViewResized ==
    /\ loaded \in {"viewObserved", "ready"}
    /\ \E view \in Views : PluginReturn(StoreViewSize(PluginFrame, view))

\* tableWidgetResizeObserver: an observed table widget was resized
TableWidgetResized ==
    \E element \in observed, width \in TableWrappers :
        PluginReturn(PluginSetTableWrapperWidth(PluginFrame, element, width))

\* tableWidgetMutationObserver: the children of an observed table widget changed
TableWidgetMutated ==
    \E element \in observed, width \in TableWrappers :
        PluginReturn(PluginSetTableWrapperWidth(PluginFrame, element, width))

\* The plugin and its store: the store is called by the plugin's handlers only;
\* .cm-contentContainer is there, LineWidth pixels wide.
InitPlugin == PluginConstructed /\ NotLoaded /\ lineWidth = LineWidth

NextPlugin ==
    \/ LayoutReady
    \/ TableInserted
    \/ ViewResized
    \/ TableWidgetResized
    \/ TableWidgetMutated

SpecPlugin == InitPlugin /\ [][NextPlugin]_vars

\* the shape of the store when it is called with the ids of TableIds
TypeOK ==
    /\ viewWidth \in Nat \cup {Undefined}
    /\ lineWidth \in Nat \cup {Undefined}
    /\ DOMAIN tableWrapperWidth \subseteq TableIds
    /\ \A id \in DOMAIN tableWrapperWidth : tableWrapperWidth[id] \in Nat
    /\ \A e \in Events : changeEventListeners[e] = [i \in 1..Len(changeEventListeners[e]) |-> i]
    /\ DOMAIN leftGap = Range(leftGapKeys)
    /\ Len(leftGapKeys) = Cardinality(DOMAIN leftGap)
    /\ \A id \in DOMAIN leftGap : leftGap[id] \in Int

\* ---------------------------------------------------------------- calls
\* The claims speak of a call made in a reachable state: of the state it starts
\* from (the variables) and of what it leaves behind (the frame it returns).

\* setTableWrapperWidth(tableId, width) made now, its raiseAt-th invocation throwing
WrapperCall(tableId, width, raiseAt) == SetTableWrapperWidth(Frame, tableId, width, raiseAt)

\* setViewWidth(width) made now, its raiseAt-th invocation throwing
ViewCall(width, raiseAt) == SetViewWidth(Frame, width, raiseAt)

\* P holds of every setTableWrapperWidth call that can be made now
EveryWrapperCall(ids, widths, P(_, _, _, _)) ==
    \A tableId \in ids, width \in widths :
        \A raiseAt \in RaiseChoices(WrapperCall(tableId, width, 0)) :
            P(tableId, width, raiseAt, WrapperCall(tableId, width, raiseAt))

\* P holds of every setViewWidth call that can be made now
EveryViewCall(widths, P(_, _, _)) ==
    \A width \in widths :
        \A raiseAt \in RaiseChoices(ViewCall(width, 0)) :
            P(width, raiseAt, ViewCall(width, raiseAt))

\* P holds of what every call that can be made now leaves behind
EveryCall(ids, widths, P(_)) ==
    LET OfWrapper(tableId, width, raiseAt, r) == P(r)
        OfView(width, raiseAt, r) == P(r)
    IN  EveryWrapperCall(ids, widths, OfWrapper) /\ EveryViewCall(widths, OfView)

\* the errors calcLeftGap throws for a missing dependency
MissingDependency == {"viewWidth is not initialized", "lineWidth is not initialized"}
ThrownByCalcLeftGap == MissingDependency \cup {"tableWrapperWidth not found in tableMap"}

\* a listener of this event threw in the call
RaisedIn(r, event) ==
    /\ r.error = "listener"
    /\ r.invoked[Len(r.invoked)].event = event

\* the tables whose recomputation in the call got as far as storing a left gap
Computed(r) ==
    {r.recomputed[i] : i \in {j \in DOMAIN r.recomputed :
        ~(j = Len(r.recomputed) /\ r.error \in ThrownByCalcLeftGap)}}

\* the call emitted this event
Emitted(r, event, args) ==
    \E i \in DOMAIN r.emitted : r.emitted[i].event = event /\ r.emitted[i].args = args

\* the number of events of this kind the call emitted
EmittedCount(r, event) == Cardinality({i \in DOMAIN r.emitted : r.emitted[i].event = event})


\* ---------------------------------------------------------------- C1
\* x / 2 pixels, in half pixels
Half(x) == x

\* the left gap the three cases of the rule give, for line < view and a wrapper
\* width other than the line width; in half pixels
RuleGap(wrapperWidth, line, view) ==
    CASE wrapperWidth < line -> 0
      [] line < wrapperWidth /\ wrapperWidth < view -> Half(wrapperWidth - line)
      [] wrapperWidth >= view -> Half(view - line)

\* every left gap the call published is the rule's and is the one stored
PublishesRuleGap(r) ==
    \A i \in DOMAIN r.emitted :
        r.emitted[i].event = "leftGap" =>
            LET tableId == r.emitted[i].args[1]
                wrapperWidth == r.tableWrapperWidth[tableId]
            IN  (lineWidth < r.viewWidth /\ wrapperWidth # lineWidth) =>
                    /\ r.emitted[i].args[2] = RuleGap(wrapperWidth, lineWidth, r.viewWidth)
                    /\ r.leftGap[tableId] = RuleGap(wrapperWidth, lineWidth, r.viewWidth)

StepOf(r) == Return(r) /\ UNCHANGED <<changeEventListeners, lineWidth, plugin>>

\* a setViewWidth call that returns has recomputed, and published the left gap
\* of, every table whose wrapper width was reported
RecomputesEveryTracked(width, raiseAt, r) ==
    (r.error = NoError /\ StepOf(r)) =>
        \A tableId \in DOMAIN tableWrapperWidth :
            /\ tableId \in Range(r.recomputed)
            /\ \E i \in DOMAIN r.emitted :
                /\ r.emitted[i].event = "leftGap"
                /\ r.emitted[i].args[1] = tableId

\* C2: in every reachable state, a setViewWidth(w) call triggers a left gap
\* recomputation and a leftGap event for every tracked table, a table being
\* tracked from the first report of its wrapper width, also when that first
\* setTableWrapperWidth call ended in an error.
C2_ViewWidthRecomputesEveryTracked ==
    [][EveryViewCall(Widths, RecomputesEveryTracked)]_vars

\* ---------------------------------------------------------------- C3
\* C3: after any sequence of setViewWidth and setTableWrapperWidth calls, the
\* line width held constant, every table whose wrapper width is stored has,
\* once the view width is stored too, a stored left gap, and it is the rule's
\* for its wrapper width, the view width and the line width.
C3_LeftGapNeverStale ==
    viewWidth # Undefined =>
        \A tableId \in DOMAIN tableWrapperWidth :
            /\ tableId \in DOMAIN leftGap
            /\ leftGap[tableId] = NewLeftGap(tableWrapperWidth[tableId], lineWidth, viewWidth)

\* ---------------------------------------------------------------- C4
\* the frame of the next call: the store as the call left it, the log empty
Again(r) ==
    [r EXCEPT !.emitted = << >>, !.invoked = << >>, !.recomputed = << >>, !.error = NoError]

\* setTableWrapperWidth(tableId, width) emits and recomputes if and only if the
\* width is new; repeated, it does nothing
EmitsOnChangeOnly(tableId, width, raiseAt, r) ==
    LET changed == \/ tableId \notin DOMAIN tableWrapperWidth
                   \/ tableWrapperWidth[tableId] # width
    IN  /\ changed =>
            /\ r.emitted[1] = [event |-> "tableWrapperWidth", args |-> <<tableId, width>>]
            /\ EmittedCount(r, "tableWrapperWidth") = 1
        /\ ~changed => r = Frame
        /\ r.recomputed = IF changed /\ ~RaisedIn(r, "tableWrapperWidth")
                          THEN <<tableId>> ELSE << >>
        /\ r.tableWrapperWidth = Put(tableWrapperWidth, tableId, width)
        /\ \A second \in 0..Registered :
            SetTableWrapperWidth(Again(r), tableId, width, second) = Again(r)

\* C4: setTableWrapperWidth(id, w) emits a tableWrapperWidth event (id, w), once,
\* if and only if w differs from the stored wrapper width of id or id is new, and
\* it then enters the recomputation of id (and of no other table) unless a
\* tableWrapperWidth listener threw; with w the stored width it changes nothing,
\* emits nothing and recomputes nothing, so that the same call made a second time
\* in a row leaves the store as the first left it and emits no event.
C4_WrapperWidthChangeDetection == EveryWrapperCall(TableIds, Widths, EmitsOnChangeOnly)

\* C4 witness: a table has a stored wrapper width and a left gap, a listener of
\* tableWrapperWidth is registered, and reporting another width emits the event
\* and recomputes while reporting the stored one does nothing.
C4_Witness ==
    /\ "t1" \in DOMAIN leftGap
    /\ Len(changeEventListeners["tableWrapperWidth"]) > 0
    /\ \E width \in Widths :
        /\ width # tableWrapperWidth["t1"]
        /\ WrapperCall("t1", width, 0).recomputed = <<"t1">>
        /\ Emitted(WrapperCall("t1", width, 0), "tableWrapperWidth", <<"t1", width>>)
    /\ WrapperCall("t1", tableWrapperWidth["t1"], 0) = Frame

\* ---------------------------------------------------------------- C5
\* every left gap the call computed was published, as stored, once
PublishesEveryLeftGap(r) ==
    /\ \A tableId \in Computed(r) : Emitted(r, "leftGap", <<tableId, r.leftGap[tableId]>>)
    /\ EmittedCount(r, "leftGap") = Cardinality(Computed(r))

\* setViewWidth(width) emits viewWidth (width) first, whatever the stored width
PublishesViewWidth(width, raiseAt, r) ==
    /\ r.emitted[1] = [event |-> "viewWidth", args |-> <<width>>]
    /\ EmittedCount(r, "viewWidth") = 1
    /\ r.viewWidth = width

\* C5: setViewWidth(w) emits a viewWidth event (w) also when w is the stored view
\* width, and every recomputation that computes a left gap emits a leftGap event
\* with it, one per table recomputed, also when the left gap computed is the one
\* already stored.
C5_UnconditionalPublication ==
    /\ EveryViewCall(Widths, PublishesViewWidth)
    /\ EveryCall(TableIds, Widths, PublishesEveryLeftGap)

\* C5 witness: both tables have a left gap, and setViewWidth with the stored view
\* width leaves every left gap as it was and yet emits viewWidth and a leftGap
\* event for each table.
C5_Witness ==
    /\ viewWidth # Undefined
    /\ DOMAIN leftGap = TableIds
    /\ LET r == ViewCall(viewWidth, 0)
       IN  /\ r.error = NoError
           /\ r.leftGap = leftGap
           /\ Emitted(r, "viewWidth", <<viewWidth>>)
           /\ \A tableId \in TableIds : Emitted(r, "leftGap", <<tableId, leftGap[tableId]>>)

\* ---------------------------------------------------------------- C6
\* the left gap of a table in a Record, as a set: empty when the key is absent
Entry(obj, key) == IF key \in DOMAIN obj THEN {obj[key]} ELSE {}

\* a recomputation that lacks the view width or the line width throws, stores no
\* left gap for its table and publishes none
FailsClosed(r) ==
    /\ r.error \in MissingDependency =>
        LET tableId == r.recomputed[Len(r.recomputed)]
        IN  /\ r.error = IF r.viewWidth = Undefined THEN "viewWidth is not initialized"
                         ELSE "lineWidth is not initialized"
            /\ r.viewWidth = Undefined \/ lineWidth = Undefined
            /\ Entry(r.leftGap, tableId) = Entry(leftGap, tableId)
            /\ \A i \in DOMAIN r.emitted :
                r.emitted[i].event = "leftGap" => r.emitted[i].args[1] # tableId
    /\ (r.recomputed # << >> /\ (r.viewWidth = Undefined \/ lineWidth = Undefined)) =>
        r.error \in MissingDependency
    /\ r.viewWidth = Undefined => r.leftGap = << >>

\* C6: a recomputation for a table whose wrapper width is stored, entered while
\* the view width has never been set or while the line width is unavailable,
\* throws ("viewWidth is not initialized", "lineWidth is not initialized") out
\* of the setTableWrapperWidth or setViewWidth call that entered it; it stores
\* no left gap for the table and emits no leftGap event for it, and while the
\* view width has never been set no table has a left gap at all (no silent 0).
C6_MissingDependencyFailsClosed == EveryCall(TableIds, Widths, FailsClosed)

\* C6 witness: the wrapper width of t1 was reported before any view width: it is
\* stored, t1 has no left gap, and reporting another width throws again for the
\* missing view width.
C6_Witness ==
    /\ viewWidth = Undefined
    /\ lineWidth # Undefined
    /\ "t1" \in DOMAIN tableWrapperWidth
    /\ "t1" \notin DOMAIN leftGap
    /\ \E width \in Widths :
        /\ width # tableWrapperWidth["t1"]
        /\ WrapperCall("t1", width, 0).error = "viewWidth is not initialized"
        /\ WrapperCall("t1", width, 0).recomputed = <<"t1">>

\* ---------------------------------------------------------------- C7
\* a call that throws leaves the widths and the left gaps as they were
ThrowsAtomically(r) ==
    (r.error # NoError /\ StepOf(r)) =>
        /\ r.viewWidth = viewWidth
        /\ r.tableWrapperWidth = tableWrapperWidth
        /\ r.leftGap = leftGap

\* C7: a setTableWrapperWidth or setViewWidth call that ends in an error (a
\* missing dependency, a listener that throws) leaves the view width, every
\* wrapper width and every left gap as they were before the call.
C7_FailedCallChangesNothing == [][EveryCall(TableIds, Widths, ThrowsAtomically)]_vars

\* ---------------------------------------------------------------- C8
\* the invocations owed to the events emitted from the i-th on: for each event,
\* every listener of its kind, first registered first, with the event's arguments
RECURSIVE Owed(_, _)
Owed(events, i) ==
    IF i > Len(events) THEN << >>
    ELSE [j \in 1..Len(changeEventListeners[events[i].event]) |->
            [event |-> events[i].event, listener |-> j, args |-> events[i].args]]
         \o Owed(events, i + 1)

\* the listeners are invoked as owed, up to the one that throws
InvokesInOrder(r) ==
    /\ Len(r.invoked) <= Len(Owed(r.emitted, 1))
    /\ r.invoked = SubSeq(Owed(r.emitted, 1), 1, Len(r.invoked))
    /\ r.error # "listener" => r.invoked = Owed(r.emitted, 1)

\* C8: on every event a call emits, the listeners registered for its kind are
\* invoked within the call, first registered first and each with the arguments
\* of the event, all of them unless one throws (then those up to it): with two
\* listeners on leftGap one recomputation invokes the first registered and then
\* the second with the same (id, leftGap).
C8_ListenersInRegistrationOrder == EveryCall(TableIds, Widths, InvokesInOrder)

\* C8 witness: two listeners are registered on leftGap, and a recomputation of
\* t1 invokes the first and then the second with the left gap it stored.
C8_Witness ==
    /\ Len(changeEventListeners["leftGap"]) = 2
    /\ \E width \in Widths :
        LET r == WrapperCall("t1", width, 0)
        IN  /\ r.error = NoError
            /\ r.recomputed = <<"t1">>
            /\ r.invoked =
                <<[event |-> "leftGap", listener |-> 1, args |-> <<"t1", r.leftGap["t1"]>>],
                  [event |-> "leftGap", listener |-> 2, args |-> <<"t1", r.leftGap["t1"]>>]>>

\* ---------------------------------------------------------------- C9
\* C9: in every reachable state every stored left gap is 0 or positive, whatever
\* non-negative wrapper widths, view widths and line widths were reported.
C9_LeftGapNeverNegative == \A tableId \in DOMAIN leftGap : leftGap[tableId] >= 0

\* ---------------------------------------------------------------- C10
\* s is a prefix of t
IsPrefix(s, t) == Len(s) <= Len(t) /\ s = SubSeq(t, 1, Len(s))

\* the call whose raiseAt-th invocation throws goes as the call in which none
\* throws up to that invocation, and no further: r is the one, unraised the other
StopsAtRaise(raiseAt, r, unraised) ==
    raiseAt > 0 =>
        /\ r.error = "listener"
        /\ r.invoked = SubSeq(unraised.invoked, 1, raiseAt)
        /\ IsPrefix(r.emitted, unraised.emitted)
        /\ r.emitted[Len(r.emitted)].event = r.invoked[raiseAt].event
        /\ IsPrefix(r.recomputed, unraised.recomputed)
        /\ r.invoked[raiseAt].event # "leftGap" => r.recomputed = << >> /\ r.leftGap = leftGap
        /\ r.invoked[raiseAt].event = "leftGap" =>
                r.recomputed[Len(r.recomputed)] = r.invoked[raiseAt].args[1]

\* a setTableWrapperWidth call stops at the listener that throws
WrapperCallStopsAtRaise(tableId, width, raiseAt, r) ==
    StopsAtRaise(raiseAt, r, WrapperCall(tableId, width, 0))

\* a setViewWidth call stops at the listener that throws
ViewCallStopsAtRaise(width, raiseAt, r) ==
    StopsAtRaise(raiseAt, r, ViewCall(width, 0))

\* C10: when a listener throws during a notification, no listener after it is
\* invoked, for that event or for a later one, nothing that the call would have
\* done after the notification is done (no further event, no recomputation), and
\* the set* call ends with the listener's error: the store does not catch it.
C10_ListenerErrorAborts ==
    /\ EveryWrapperCall(TableIds, Widths, WrapperCallStopsAtRaise)
    /\ EveryViewCall(Widths, ViewCallStopsAtRaise)

\* C10 witness: two listeners are registered on viewWidth and t1 has a left gap;
\* when the first listener throws in setViewWidth, the second is not invoked, t1
\* is not recomputed and the call ends with the error.
C10_Witness ==
    /\ Len(changeEventListeners["viewWidth"]) = 2
    /\ "t1" \in DOMAIN leftGap
    /\ lineWidth # Undefined
    /\ \E width \in Widths :
        /\ ViewCall(width, 0).error = NoError
        /\ Len(ViewCall(width, 0).invoked) = 2
        /\ ViewCall(width, 0).recomputed = <<"t1">>
        /\ ViewCall(width, 1).error = "listener"
        /\ Len(ViewCall(width, 1).invoked) = 1
        /\ ViewCall(width, 1).recomputed = << >>

\* ---------------------------------------------------------------- C11
\* C11: a table widget is given its id (dataset.pluginFullwidthTableId) when the
\* plugin first sees it, and keeps it: no step of the plugin (the scan made when
\* the layout is ready, the insertion observer reporting the element again)
\* gives an element that carries an id another id, and no two elements carry
\* the same id.
C11_EntityIdStable ==
    [][/\ \A element \in Elements :
            pluginFullwidthTableId[element] # NoId =>
                pluginFullwidthTableId'[element] = pluginFullwidthTableId[element]
       /\ \A e, f \in Elements :
            (e # f /\ pluginFullwidthTableId'[e] # NoId) =>
                pluginFullwidthTableId'[e] # pluginFullwidthTableId'[f]]_vars

\* ---------------------------------------------------------------- C12
\* a left gap the call published that is the clamped value (V - L)/2, the view
\* width V other than the line width L, is that of a wrapper width w >= V
ClampsOnlyAtView(r) ==
    StepOf(r) =>
        \A i \in DOMAIN r.emitted :
            r.emitted[i].event = "leftGap" =>
                LET tableId == r.emitted[i].args[1]
                IN  (/\ r.viewWidth # lineWidth
                     /\ r.emitted[i].args[2] = Half(r.viewWidth - lineWidth)) =>
                        r.tableWrapperWidth[tableId] >= r.viewWidth

\* C12: a recomputation produces the clamped value (V - L)/2 only when the
\* wrapper width w is at least the view width V; in particular with w = L < V
\* it does not take the clamped (third) case of the rule.
C12_ClampedOnlyAtViewWidth ==
    [][EveryCall(RuleTableIds, RuleWidths, ClampsOnlyAtView)]_vars

\* ---------------------------------------------------------------- C13
\* What a listener finds stored when it is invoked is what the call leaves
\* behind when that listener throws (nothing runs after it): the value of every
\* event is stored when the event is delivered if, whichever invocation of the
\* call throws, the call leaves the value of that invocation's event stored.
DeliversStored(raiseAt, r) ==
    raiseAt > 0 =>
        LET delivered == r.invoked[raiseAt]
        IN  CASE delivered.event = "tableWrapperWidth" ->
                    /\ delivered.args[1] \in DOMAIN r.tableWrapperWidth
                    /\ r.tableWrapperWidth[delivered.args[1]] = delivered.args[2]
              [] delivered.event = "viewWidth" -> r.viewWidth = delivered.args[1]
              [] delivered.event = "leftGap" ->
                    /\ delivered.args[1] \in DOMAIN r.leftGap
                    /\ r.leftGap[delivered.args[1]] = delivered.args[2]

\* the events of a call after its first are leftGap events
ThenLeftGaps(r) == \A i \in 2..Len(r.emitted) : r.emitted[i].event = "leftGap"

\* setTableWrapperWidth: the width is stored, tableWrapperWidth is emitted, then
\* the left gap of the table is stored and leftGap is emitted
WrapperCallInOrder(tableId, width, raiseAt, r) ==
    /\ r.emitted # << >> =>
        /\ r.emitted[1] = [event |-> "tableWrapperWidth", args |-> <<tableId, width>>]
        /\ ThenLeftGaps(r)
    /\ DeliversStored(raiseAt, r)

\* setViewWidth: the width is stored, viewWidth is emitted, then each left gap
\* is stored and its leftGap is emitted
ViewCallInOrder(width, raiseAt, r) ==
    /\ r.emitted[1] = [event |-> "viewWidth", args |-> <<width>>]
    /\ ThenLeftGaps(r)
    /\ DeliversStored(raiseAt, r)

\* C13: within one call the events are ordered. setTableWrapperWidth(id, w)
\* stores w before the tableWrapperWidth event (id, w), which comes before the
\* leftGap event of id; setViewWidth(w) stores w before the viewWidth event (w),
\* which comes before every leftGap event of the call; and every left gap is
\* stored before its leftGap event is delivered to a listener.
C13_EventsInOrder ==
    /\ EveryWrapperCall(TableIds, Widths, WrapperCallInOrder)
    /\ EveryViewCall(Widths, ViewCallInOrder)

\* C13 witness: a listener is registered on tableWrapperWidth and one on leftGap,
\* and reporting a new width of t1 emits tableWrapperWidth and then leftGap; the
\* first listener finds the new width stored and the left gap not yet recomputed,
\* the second finds the new left gap stored.
C13_Witness ==
    /\ Len(changeEventListeners["tableWrapperWidth"]) = 1
    /\ Len(changeEventListeners["leftGap"]) = 1
    /\ "t1" \in DOMAIN leftGap
    /\ \E width \in Widths :
        LET r == WrapperCall("t1", width, 0)
        IN  /\ r.error = NoError
            /\ Len(r.emitted) = 2
            /\ r.emitted[1].event = "tableWrapperWidth"
            /\ r.emitted[2] = [event |-> "leftGap", args |-> <<"t1", r.leftGap["t1"]>>]
            /\ r.leftGap["t1"] # leftGap["t1"]
            /\ WrapperCall("t1", width, 1).tableWrapperWidth["t1"] = width
            /\ WrapperCall("t1", width, 1).leftGap = leftGap
            /\ WrapperCall("t1", width, 2).leftGap = r.leftGap

\* ---------------------------------------------------------------- C14
\* every left gap the call published with the line no wider than the view is
\* at most (V - L)/2, and is the one stored
ClampsToView(r) ==
    \A i \in DOMAIN r.emitted :
        r.emitted[i].event = "leftGap" =>
            (lineWidth <= r.viewWidth =>
                /\ r.emitted[i].args[2] <= Half(r.viewWidth - lineWidth)
                /\ r.leftGap[r.emitted[i].args[1]] = r.emitted[i].args[2])

\* C14: whenever the line width L is at most the view width V, the left gap a
\* recomputation stores is at most (V - L)/2, however large the wrapper width:
\* the table is never shifted further left than where the view begins.
C14_LeftGapClampedToView == EveryCall(RuleTableIds, RuleWidths, ClampsToView)

\* C14 witness: the table is wider than the view, which is wider than the line;
\* its left gap is (V - L)/2, less than half its excess over the line, and a
\* still wider table gets the same.
C14_Witness ==
    /\ lineWidth # Undefined /\ lineWidth < viewWidth
    /\ "t1" \in DOMAIN leftGap
    /\ viewWidth < tableWrapperWidth["t1"] /\ tableWrapperWidth["t1"] < MaxRuleWidth
    /\ leftGap["t1"] = Half(viewWidth - lineWidth)
    /\ leftGap["t1"] < Half(tableWrapperWidth["t1"] - lineWidth)
    /\ WrapperCall("t1", MaxRuleWidth, 0).leftGap["t1"] = Half(viewWidth - lineWidth)

\* ---------------------------------------------------------------- C15
\* the k-th recomputation of a setViewWidth call publishes the left gap of the
\* line width it read itself, and throws if it read none
ReadsLineEachTime(width, lines, r) ==
    \A k \in DOMAIN r.recomputed :
        LET tableId == r.recomputed[k]
        IN  IF lines[k] = Undefined
            THEN k = Len(r.recomputed) /\ r.error = "lineWidth is not initialized"
            ELSE r.emitted[k + 1] =
                    [event |-> "leftGap",
                     args |-> <<tableId, NewLeftGap(tableWrapperWidth[tableId], lines[k], width)>>]

\* the recomputation of a setTableWrapperWidth call publishes the left gap of the
\* line width of now, whatever line width the stored left gap was computed from
ReadsLineNow(tableId, width, raiseAt, r) ==
    \A i \in DOMAIN r.emitted :
        r.emitted[i].event = "leftGap" =>
            r.emitted[i].args = <<tableId, NewLeftGap(width, lineWidth, r.viewWidth)>>

\* C15: every recomputation uses the line width as the environment has it when
\* that recomputation runs, not one kept from an earlier recomputation: after a
\* change of the line width the next left gap published for a table is computed
\* from the new line width, and within one setViewWidth call the recomputation of
\* each table reads the line width for itself.
C15_LineWidthReadFresh ==
    /\ \A width \in Widths, lines \in LinesRead(Widths) :
        \A raiseAt \in RaiseChoices(SetViewWidthReading(Frame, width, 0, lines)) :
            ReadsLineEachTime(width, lines, SetViewWidthReading(Frame, width, raiseAt, lines))
    /\ EveryWrapperCall(TableIds, Widths, ReadsLineNow)
    /\ \A width \in Widths :
        \A raiseAt \in RaiseChoices(ViewCall(width, 0)) :
            SetViewWidthReading(Frame, width, raiseAt, [k \in DOMAIN leftGapKeys |-> lineWidth])
                = ViewCall(width, raiseAt)

\* C15 witness: both tables have a left gap, and in a setViewWidth call the
\* layout changes between the two recomputations: the second table gets the left
\* gap of the line width read second, which is not the left gap the line width
\* read first would give it; and the stored left gap of a table is not the one
\* the line width of now gives, which a report of its width recomputes.
C15_Witness ==
    /\ Len(leftGapKeys) = 2
    /\ \E width \in Widths, lines \in LinesRead(Widths) :
        LET r == SetViewWidthReading(Frame, width, 0, lines)
            second == leftGapKeys[2]
        IN  /\ r.error = NoError
            /\ lines[1] # lines[2]
            /\ r.leftGap[second] = NewLeftGap(tableWrapperWidth[second], lines[2], width)
            /\ r.leftGap[second] # NewLeftGap(tableWrapperWidth[second], lines[1], width)
    /\ \E tableId \in TableIds, width \in Widths :
        LET r == WrapperCall(tableId, width, 0)
        IN  /\ r.error = NoError
            /\ leftGap[tableId] # NewLeftGap(tableWrapperWidth[tableId], lineWidth, viewWidth)
            /\ r.leftGap[tableId] = NewLeftGap(width, lineWidth, viewWidth)

\* ---------------------------------------------------------------- C16
\* a setTableWrapperWidth(tableId, width) call that returns leaves the table with
\* the left gap of the rule for width, the view width and the line width
StoresRuleGapOnReturn(tableId, width, raiseAt, r) ==
    r.error = NoError =>
        /\ tableId \in DOMAIN r.leftGap
        /\ r.leftGap[tableId] = NewLeftGap(width, lineWidth, r.viewWidth)

\* C16: whenever a setTableWrapperWidth(id, w) call returns without an error, id
\* has a stored left gap and it is the rule's for w, the view width and the line
\* width; also when the call repeats, with the same (id, w), a call that failed.
C16_ReturnImpliesLeftGap == EveryWrapperCall(TableIds, Widths, StoresRuleGapOnReturn)

\* ---------------------------------------------------------------- C17
\* the call leaves a left gap only for tables with a wrapper width, and does not
\* end in the error of a recomputation for a table without one
KnowsEveryRecomputed(r) ==
    /\ DOMAIN r.leftGap \subseteq DOMAIN r.tableWrapperWidth
    /\ Range(r.recomputed) \subseteq DOMAIN r.tableWrapperWidth
    /\ r.error # "tableWrapperWidth not found in tableMap"

\* C17: in every reachable state the tables with a stored left gap are among
\* those with a stored wrapper width, so that no setTableWrapperWidth and no
\* setViewWidth call ends in the error "tableWrapperWidth not found".
C17_LeftGapOnlyForKnownTables ==
    /\ DOMAIN leftGap \subseteq DOMAIN tableWrapperWidth
    /\ EveryCall(TableIds, Widths, KnowsEveryRecomputed)

\* C17 witness: t1 has a left gap, t2 was never reported, and setViewWidth
\* recomputes t1 only and returns.
C17_Witness ==
    /\ "t1" \in DOMAIN leftGap
    /\ "t2" \notin DOMAIN tableWrapperWidth
    /\ \E width \in Widths :
        /\ ViewCall(width, 0).error = NoError
        /\ ViewCall(width, 0).recomputed = <<"t1">>

\* ---------------------------------------------------------------- C18
\* setTableWrapperWidth(tableId, width) leaves the view width and the wrapper
\* width and left gap of every other table alone; its events, and what its
\* listeners are given, are about tableId
LeavesOtherTables(tableId, width, raiseAt, r) ==
    /\ r.viewWidth = viewWidth
    /\ \A other \in TableIds \ {tableId} :
        /\ Entry(r.tableWrapperWidth, other) = Entry(tableWrapperWidth, other)
        /\ Entry(r.leftGap, other) = Entry(leftGap, other)
    /\ \A i \in DOMAIN r.emitted :
        r.emitted[i].event \in {"tableWrapperWidth", "leftGap"} /\ r.emitted[i].args[1] = tableId
    /\ \A i \in DOMAIN r.invoked : r.invoked[i].args[1] = tableId
    /\ Range(r.recomputed) \subseteq {tableId}

\* the step appends a listener to the listeners of one event and changes nothing
\* else of the store
RegistersOnly ==
    /\ UNCHANGED <<viewWidth, tableWrapperWidth, leftGap, leftGapKeys>>
    /\ \E event \in Events :
        changeEventListeners' = AddChangeEventListener(changeEventListeners, event)

\* C18: setTableWrapperWidth(id, w) leaves the view width and the wrapper width
\* and left gap of every other table unchanged and emits no event that carries
\* the id of another table; addChangeEventListener changes no width and no left
\* gap (and, the store having nothing but these to publish, emits no event).
C18_FrameConditions ==
    /\ EveryWrapperCall(TableIds, Widths, LeavesOtherTables)
    /\ ~ENABLED (CallAddChangeEventListener /\ ~RegistersOnly)

\* C18 witness: a listener is registered and both tables have a left gap;
\* reporting a new width of t1 changes the left gap of t1, emits its two events
\* and leaves t2 as it was.
C18_Witness ==
    /\ Registered > 0
    /\ DOMAIN leftGap = TableIds
    /\ \E width \in Widths :
        LET r == WrapperCall("t1", width, 0)
        IN  /\ r.error = NoError
            /\ Len(r.emitted) = 2
            /\ r.leftGap["t1"] # leftGap["t1"]
            /\ r.leftGap["t2"] = leftGap["t2"]
            /\ r.tableWrapperWidth["t2"] = tableWrapperWidth["t2"]

\* ---------------------------------------------------------------- C19
\* a table is registered: an element carries an id, is observed, or the store
\* has a wrapper width
SomeTableRegistered(ids, watched, widths) ==
    \/ \E element \in Elements : ids[element] # NoId
    \/ watched # {}
    \/ DOMAIN widths # {}

\* the handler did not run a recomputation without a view width, and leaves a
\* table registered only with the view width stored and the callback run through
ViewWidthFirst(a) ==
    /\ a.store.error # "viewWidth is not initialized"
    /\ SomeTableRegistered(a.pluginFullwidthTableId, a.observed, a.store.tableWrapperWidth) =>
        a.loaded = "ready" /\ a.store.viewWidth # Undefined

\* C19: the plugin calls setViewWidth, and the call returns, before it calls
\* setTableWrapperWidth for any table: when the layout is ready the view width is
\* stored before the tables are scanned and before the insertion observer is
\* installed, and if storing it fails no table is ever registered; so no
\* recomputation runs without a view width.
C19_ViewWidthBeforeTables ==
    /\ SomeTableRegistered(pluginFullwidthTableId, observed, tableWrapperWidth) =>
        loaded = "ready"
    /\ loaded = "ready" => viewWidth # Undefined
    /\ loaded = "waiting" => \A doc \in Documents : ViewWidthFirst(OnLayoutReady(PluginFrame, doc))
    /\ loaded = "ready" =>
        \A added \in TableWidgets :
            ViewWidthFirst(InitEach(PluginFrame, added.tableWidgets, 1, added.tableWrapper))
    /\ \A element \in observed, width \in TableWrappers :
        ViewWidthFirst(PluginSetTableWrapperWidth(PluginFrame, element, width))
    /\ loaded \in {"viewObserved", "ready"} =>
        \A view \in Views : ViewWidthFirst(StoreViewSize(PluginFrame, view))

\* C19 witness: the callback ran through, the view width is stored, and a table
\* widget found or inserted since carries an id under which the store has its
\* wrapper width and its left gap.
C19_Witness ==
    /\ loaded = "ready"
    /\ viewWidth # Undefined
    /\ \E element \in observed :
        /\ pluginFullwidthTableId[element] \in DOMAIN tableWrapperWidth
        /\ pluginFullwidthTableId[element] \in DOMAIN leftGap

====
